---- MODULE Spec2Model ----
(***************************************************************************)
(* Civic-issue predictive analytics service (ml-service).                  *)
(*                                                                         *)
(* The model covers the training orchestrator (main.py train_models_task,  *)
(* train_models.py main), the column schema of the feature pipeline        *)
(* (services/data_processor.py), the model registry and the inference path *)
(* of PredictiveModels (services/ml_models.py) and the heatmap scoring of  *)
(* VisualizationService (services/visualization.py).                       *)
(*                                                                         *)
(* Numbers. Probabilities, risk scores and coordinates are fixed-point     *)
(* integers in units of 1e-5 (One is 1.0, a degree is One units). Weather  *)
(* quantities are whole millimetres, degrees Celsius and percent. Means    *)
(* are exact rationals <<numerator, denominator>>; floating-point rounding *)
(* is not modelled.                                                        *)
(*                                                                         *)
(* Python values. A dict is a function with a finite domain of strings;    *)
(* an Optional is None or Some(v); a list is a sequence.  A DataFrame is   *)
(* its ordered column names, the set of its object-typed (string) columns  *)
(* and the sizes of its location_key groups.  A fitted estimator is the    *)
(* training run that made it and the columns it was fitted on.             *)
(***************************************************************************)
EXTENDS Integers, Sequences, FiniteSets, TLC

(***************************************************************************)
(* Bounds of the model                                                     *)
(***************************************************************************)
\* training runs started (the startup run included)
MaxRuns == 3
\* rows of the largest location_key group of a training table
MaxGroupLen == 9
\* period of the random draws of one scan or heatmap
NoiseDraws == 3
\* largest heatmap resolution requested
MaxResolution == 3
\* longest prediction list and risk-area list handed to calculate_overall_risk
MaxItems == 2
MaxAreas == 2
\* POST /train requests waiting in the server's socket
MaxInbox == 1

(***************************************************************************)
(* Program constants                                                       *)
(***************************************************************************)
\* the literal 1.0 in fixed point
One == 100000
\* sequence_length of the LSTM windows
SequenceLength == 7

(***************************************************************************)
(* Generic helpers                                                         *)
(***************************************************************************)
Min(a, b) == IF a <= b THEN a ELSE b
Max(a, b) == IF a >= b THEN a ELSE b
Range(s) == {s[i] : i \in DOMAIN s}
EmptyDict == [k \in {} |-> 0]
\* d[k] = v on a dict
Put(d, k, v) == [x \in (DOMAIN d) \cup {k} |-> IF x = k THEN v ELSE d[x]]
\* d.get(k, dflt)
Get(d, k, dflt) == IF k \in DOMAIN d THEN d[k] ELSE dflt
None == [some |-> FALSE]
Some(v) == [some |-> TRUE, val |-> v]
\* Python truthiness of an Optional[Dict]: None and {} are both falsy
Truthy(opt) == opt.some /\ DOMAIN opt.val # {}
\* [x for x in s if x not in drop]
RECURSIVE Without(_, _)
Without(s, drop) ==
    IF s = <<>> THEN <<>>
    ELSE IF Head(s) \in drop THEN Without(Tail(s), drop)
         ELSE <<Head(s)>> \o Without(Tail(s), drop)
RECURSIVE SeqSum(_)
SeqSum(s) == IF s = <<>> THEN 0 ELSE Head(s) + SeqSum(Tail(s))

(***************************************************************************)
(* DataFrames: column schema of the feature pipeline                       *)
(***************************************************************************)
Frame(cols, obj, groups) == [cols |-> cols, obj |-> obj, groups |-> groups]
EmptyFrame == Frame(<<>>, {}, <<>>)
HasCol(df, c) == c \in Range(df.cols)
\* df[c] = ...: a new column is appended, an existing one keeps its place
SetCol(df, c, isObj) ==
    [df EXCEPT !.cols = IF c \in Range(df.cols) THEN @ ELSE Append(@, c),
               !.obj = IF isObj THEN @ \cup {c} ELSE @ \ {c}]
RECURSIVE SetCols(_, _)
SetCols(df, cs) ==
    IF cs = <<>> THEN df ELSE SetCols(SetCol(df, Head(cs), FALSE), Tail(cs))

\* DataProcessor.categories, in the sorted order get_dummies emits them
Categories ==
    << "Other", "Parks & Recreation", "Public Safety", "Road & Pothole Issues",
       "Sewage & Drainage", "Streetlight Problems", "Traffic Management",
       "Waste Management", "Water Supply" >>
DummyCols == [i \in DOMAIN Categories |-> "cat_" \o Categories[i]]

\* pd.get_dummies(df, columns=['category'], prefix='cat')
get_dummies(df) ==
    [df EXCEPT !.cols = Without(@, {"category"}) \o DummyCols,
               !.obj = @ \ {"category"}]

\* DataProcessor._engineer_features
_engineer_features(data) ==
    LET d1 == IF HasCol(data, "date")
              THEN SetCol(SetCols(SetCol(data, "date", FALSE),
                        <<"year", "month", "day_of_year", "day_of_week", "is_weekend">>),
                        "season", TRUE)
              ELSE data
        d2 == IF HasCol(d1, "latitude") /\ HasCol(d1, "longitude")
              THEN SetCol(SetCol(d1, "location_key", TRUE), "distance_from_center", FALSE)
              ELSE d1
        d3 == IF HasCol(d2, "precipitation")
              THEN SetCols(d2, <<"heavy_rain", "rain_3day_avg">>)
              ELSE d2
        d4 == IF HasCol(d3, "temperature") THEN SetCol(d3, "extreme_temp", FALSE) ELSE d3
        d5 == IF HasCol(d4, "category") THEN get_dummies(d4) ELSE d4
        d6 == IF HasCol(d5, "created_at")
              THEN SetCol(SetCol(SetCol(d5, "created_at", FALSE), "hour", FALSE),
                          "time_of_day", TRUE)
              ELSE d5
    IN  SetCol(d6, "risk_score", FALSE)

\* DataProcessor._generate_sample_data: the raw synthetic table, engineered
_generate_sample_data(groups) ==
    _engineer_features(
        Frame(<< "date", "created_at", "latitude", "longitude", "category", "priority",
                 "precipitation", "temperature", "humidity", "population_density",
                 "infrastructure_age", "resolution_time" >>,
              {"category", "priority"}, groups))

\* DataProcessor._generate_weather_data
_generate_weather_data ==
    Frame(<<"date", "precipitation", "temperature", "humidity", "wind_speed", "pressure">>,
          {}, <<>>)

\* DataProcessor._generate_demographic_data
_generate_demographic_data ==
    Frame(<< "location_key", "latitude", "longitude", "population_density",
             "infrastructure_age", "income_level", "urban_area" >>,
          {"location_key", "income_level"}, <<>>)

\* left.merge(right, on=key, how='left'): shared non-key columns get _x / _y
merge(left, right, key) ==
    LET shared == (Range(left.cols) \cap Range(right.cols)) \ {key}
        lcols == [i \in DOMAIN left.cols |->
                    IF left.cols[i] \in shared THEN left.cols[i] \o "_x" ELSE left.cols[i]]
        rkept == Without(right.cols, {key})
        rcols == [i \in DOMAIN rkept |->
                    IF rkept[i] \in shared THEN rkept[i] \o "_y" ELSE rkept[i]]
        ren(o, sfx) == {IF c \in shared THEN c \o sfx ELSE c : c \in o}
    IN  Frame(lcols \o rcols, ren(left.obj, "_x") \cup ren(right.obj \ {key}, "_y"),
              left.groups)

\* DataProcessor._combine_datasets
_combine_datasets(issues, weather, demographic) ==
    IF issues.cols = <<>> THEN _generate_sample_data(issues.groups)
    ELSE LET c1 == IF weather.cols # <<>> THEN merge(issues, weather, "date") ELSE issues
             c2 == IF demographic.cols # <<>> THEN merge(c1, demographic, "location_key")
                   ELSE c1
         IN  c2

\* DataProcessor.load_training_data; the loaders return an empty frame when
\* their source is unavailable
load_training_data(groups, weatherOK, demographicOK) ==
    LET issues_data == _generate_sample_data(groups)
        weather_data == IF weatherOK THEN _generate_weather_data ELSE EmptyFrame
        demographic_data == IF demographicOK THEN _generate_demographic_data ELSE EmptyFrame
    IN  _engineer_features(_combine_datasets(issues_data, weather_data, demographic_data))

(***************************************************************************)
(* State                                                                   *)
(***************************************************************************)
VARIABLES
    models,             \* PredictiveModels.models: name -> fitted estimator
    scalers,            \* PredictiveModels.scalers: name -> fitted scaler
    label_encoders,     \* PredictiveModels.label_encoders: its keys (columns)
    feature_columns,    \* PredictiveModels.feature_columns
    model_metrics,      \* PredictiveModels.model_metrics: name -> run of the metric
    trained_models,     \* main.py trained_models: name -> None | Some(estimator)
    model_last_updated, \* main.py model_last_updated: name -> time
    models_trained,     \* train_models.py main: name -> success flag of this run
    runs,               \* training runs started so far; also the clock
    pc,                 \* 0: no run in progress; i: about to train Variants[i]
    data,               \* the DataFrame of the run in progress
    loaded,             \* the instance was built by load_models
    inbox,              \* POST /train requests sent and not yet handled: for
                        \* each, whether a run was in flight when it was sent
    pending,            \* background tasks added and not yet started
    resp                \* what the last call returned, with its arguments

vars == << models, scalers, label_encoders, feature_columns, model_metrics,
           trained_models, model_last_updated, models_trained, runs, pc, data, loaded,
           inbox, pending, resp >>

\* models_to_train, in the order of the loop
Variants == <<"issue_classifier", "risk_regressor", "time_series", "anomaly_detector">>

\* a fitted estimator or scaler: the run that made it, the columns it saw
Fitted(run, cols) == [run |-> run, cols |-> cols]

(***************************************************************************)
(* Training: services/ml_models.py                                         *)
(***************************************************************************)
\* PredictiveModels._prepare_classification_data.  The encoders and the
\* in-place encoding of the frame are kept even when data['category'] raises;
\* feature_columns is assigned only after it.
_prepare_classification_data(df, encoders) ==
    LET feature_cols == Without(df.cols,
            {"category", "date", "created_at", "location_key", "risk_score"})
        categorical_cols == df.obj \cap Range(feature_cols)
        fresh == categorical_cols \ encoders
    IN  [ data |-> [df EXCEPT !.obj = @ \ fresh],
          label_encoders |-> encoders \cup fresh,
          feature_cols |-> feature_cols,
          raises |-> ~HasCol(df, "category") ]

\* PredictiveModels._prepare_regression_data
_prepare_regression_data(df) ==
    LET feature_cols == Without(df.cols,
            {"risk_score", "date", "created_at", "location_key"})
    IN  [ feature_cols |-> feature_cols, raises |-> ~HasCol(df, "risk_score") ]

\* the estimators fit numeric arrays: a string column left in X raises
HasStrings(df, cols) == df.obj \cap Range(cols) # {}

\* select_dtypes(include=[np.number]): not strings, datetimes or booleans
NumericCols(df) ==
    Without(df.cols, df.obj \cup {"date", "created_at"} \cup Range(DummyCols))

\* fault: the loop runs one window too far
GroupWindowsLong(len) ==
    IF len < SequenceLength + 1 THEN 0 ELSE len - SequenceLength + 1

\* windows one location group of len rows contributes
GroupWindows(len) ==
    IF len < SequenceLength + 1 THEN 0 ELSE len - SequenceLength
RECURSIVE CountWindows(_)
CountWindows(groups) ==
    IF groups = <<>> THEN 0
    ELSE GroupWindows(Head(groups)) + CountWindows(Tail(groups))

\* the windows of one group of len date-sorted rows, rows numbered from 0:
\* for i in range(len - 7), rows i..i+6 with the risk_score of row i+7
GroupSequences(len) ==
    [ k \in 1..GroupWindows(len) |->
        [ first |-> k - 1, last |-> k - 1 + SequenceLength - 1,
          target |-> k - 1 + SequenceLength ] ]

\* PredictiveModels._prepare_time_series_data: the number of sequences built
_prepare_time_series_data(df) ==
    IF ~HasCol(df, "location_key") \/ ~HasCol(df, "date") THEN 0
    ELSE IF ~HasCol(df, "risk_score") THEN 0
    ELSE CountWindows(df.groups)

\* fault: a failed step ends the run
AfterStepAborting(i, ok) == IF ok /\ i < Len(Variants) THEN i + 1 ELSE 0

\* The loop of train_models_task: every train function catches its own
\* errors, so the loop goes on to the next variant whatever the outcome.
AfterStep(i, ok) == IF i < Len(Variants) THEN i + 1 ELSE 0

\* main.py lines 257-258, train_models.py lines 61-66
Record(name, ret) ==
    /\ trained_models' = Put(trained_models, name, ret)
    /\ model_last_updated' = Put(model_last_updated, name, runs)
    /\ models_trained' = Put(models_trained, name, ret.some)

Step(i, ret, df) ==
    /\ Record(Variants[i], ret)
    /\ pc' = AfterStep(i, ret.some)
    /\ data' = IF pc' = 0 THEN EmptyFrame ELSE df
    /\ UNCHANGED <<runs, loaded, inbox, pending, resp>>

(***************************************************************************)
(* Inference: services/ml_models.py                                        *)
(***************************************************************************)
\* the reference centre (23.3441, 85.3096)
CenterLat == 2334410
CenterLng == 8530960
\* precipitation above which rain is heavy
HeavyRain == 20
\* temperatures outside which the temperature is extreme
HotTemp == 35
ColdTemp == 5
\* defaults of the weather and history lookups
DefaultTemperature == 25
DefaultHumidity == 50
DefaultPrecipitation == 0
DefaultResolutionTime == 3
\* classifier items: probability floor 0.1, risk factor 0.8 = 4/5, at most 5
MinProbability == 10000
RiskFactorNum == 4
RiskFactorDen == 5
TopK == 5
\* fixed scores of the heuristic items
RegressorConfidence == 70000
TimeSeriesScore == 30000
TimeSeriesConfidence == 60000
WaterProbability == 70000
WaterConfidence == 80000
RoadProbability == 40000
RoadConfidence == 60000

\* floor of the square root
RECURSIVE Newton(_, _)
Newton(n, x) ==
    LET y == (x + n \div x) \div 2 IN IF y >= x THEN x ELSE Newton(n, y)
ISqrt(n) == IF n < 2 THEN n ELSE Newton(n, n)

\* np.sqrt((lat - 23.3441)**2 + (lng - 85.3096)**2), in units of 1e-5 degree
DistanceFromCenter(lat, lng) ==
    ISqrt((lat - CenterLat) * (lat - CenterLat) + (lng - CenterLng) * (lng - CenterLng))

\* PredictiveModels._get_season
_get_season(month) ==
    IF month \in {12, 1, 2} THEN 0
    ELSE IF month \in {3, 4, 5} THEN 1
    ELSE IF month \in {6, 7, 8} THEN 2
    ELSE 3

\* an insertion-ordered dict: a sequence of key/value entries
Entry(k, v) == [k |-> k, v |-> v]
Keys(fs) == [i \in DOMAIN fs |-> fs[i].k]
\* features.update({...})
RECURSIVE Update(_, _)
Update(fs, kvs) ==
    IF kvs = <<>> THEN fs
    ELSE LET e == Head(kvs)
             fs1 == IF e.k \in Range(Keys(fs))
                    THEN [i \in DOMAIN fs |-> IF fs[i].k = e.k THEN e ELSE fs[i]]
                    ELSE Append(fs, e)
         IN  Update(fs1, Tail(kvs))

\* the weather entries of the feature vector
WeatherFeatures(w) ==
    << Entry("precipitation", Get(w, "precipitation", DefaultPrecipitation)),
       Entry("temperature", Get(w, "temperature", DefaultTemperature)),
       Entry("humidity", Get(w, "humidity", DefaultHumidity)),
       Entry("heavy_rain",
             IF Get(w, "precipitation", DefaultPrecipitation) > HeavyRain THEN 1 ELSE 0),
       Entry("extreme_temp",
             IF Get(w, "temperature", DefaultTemperature) > HotTemp
                \/ Get(w, "temperature", DefaultTemperature) < ColdTemp THEN 1 ELSE 0) >>

\* the history entries of the feature vector
HistoricalFeatures(h) ==
    << Entry("total_issues", Get(h, "total_issues", 0)),
       Entry("avg_resolution_time", Get(h, "avg_resolution_time", DefaultResolutionTime)),
       Entry("trend_increasing",
             IF "recent_trend" \in DOMAIN h /\ h["recent_trend"] = "increasing"
             THEN 1 ELSE 0) >>

\* PredictiveModels._extract_location_features; location['lat'] raises
\* KeyError on a location without its coordinates
_extract_location_features(location, weather_data, historical_context, now) ==
    IF ~({"lat", "lng"} \subseteq DOMAIN location)
    THEN [raises |-> TRUE, features |-> <<>>]
    ELSE
    LET base == << Entry("latitude", location["lat"]),
                   Entry("longitude", location["lng"]),
                   Entry("distance_from_center",
                         DistanceFromCenter(location["lat"], location["lng"])),
                   Entry("is_weekend", IF now.weekday \in {5, 6} THEN 1 ELSE 0),
                   Entry("month", now.month),
                   Entry("hour", now.hour),
                   Entry("season", _get_season(now.month)) >>
        f1 == IF Truthy(weather_data)
              THEN Update(base, WeatherFeatures(weather_data.val)) ELSE base
        f2 == IF Truthy(historical_context)
              THEN Update(f1, HistoricalFeatures(historical_context.val)) ELSE f1
    IN  [raises |-> FALSE, features |-> f2]

Item(category, probability, confidence, risk_score, timeframe) ==
    [ category |-> category, probability |-> probability, confidence |-> confidence,
      risk_score |-> risk_score, timeframe |-> timeframe ]

\* sorted(items, key=probability, reverse=True): stable among equal keys
RECURSIVE InsertByProbability(_, _)
InsertByProbability(sorted, x) ==
    IF sorted = <<>> THEN <<x>>
    ELSE IF Head(sorted).probability >= x.probability
         THEN <<Head(sorted)>> \o InsertByProbability(Tail(sorted), x)
         ELSE <<x>> \o sorted
RECURSIVE SortByProbability(_)
SortByProbability(items) ==
    IF items = <<>> THEN <<>>
    ELSE InsertByProbability(SortByProbability(SubSeq(items, 1, Len(items) - 1)),
                             items[Len(items)])

\* estimator.transform / predict / predict_proba on a row of another width
\* than the one fitted raises ValueError
WidthMismatch(estimator, features) == Len(estimator.cols) # Len(features)

\* float(prob * 0.8)
CategoryRisk(prob) == (prob * RiskFactorNum) \div RiskFactorDen

\* items of the classes above the probability floor, in class order
RECURSIVE CategoryItems(_, _)
CategoryItems(probabilities, i) ==
    IF i > Len(probabilities) THEN <<>>
    ELSE LET prob == probabilities[i]
             rest == CategoryItems(probabilities, i + 1)
         IN  IF prob > MinProbability
             THEN <<Item(Categories[i], prob, prob, CategoryRisk(prob), "7_days")>> \o rest
             ELSE rest

\* fault: the sorted list is returned whole
_predict_categories_uncapped(features, probabilities) ==
    IF "issue_classifier" \notin DOMAIN models THEN <<>>
    ELSE IF "issue_classifier" \in DOMAIN scalers
            /\ WidthMismatch(scalers["issue_classifier"], features) THEN <<>>
    ELSE IF WidthMismatch(models["issue_classifier"], features) THEN <<>>
    ELSE SortByProbability(CategoryItems(probabilities, 1))

\* PredictiveModels._predict_categories; probabilities is predict_proba's row.
\* An error inside is logged and the result is the empty list.
_predict_categories(features, probabilities) ==
    IF "issue_classifier" \notin DOMAIN models THEN <<>>
    ELSE IF "issue_classifier" \in DOMAIN scalers
            /\ WidthMismatch(scalers["issue_classifier"], features) THEN <<>>
    ELSE IF WidthMismatch(models["issue_classifier"], features) THEN <<>>
    ELSE LET sorted == SortByProbability(CategoryItems(probabilities, 1))
         IN  SubSeq(sorted, 1, Min(TopK, Len(sorted)))

\* fault: the regressor's value is passed on as it is
ClampMissing(x) == x

\* max(0, min(1, risk_score))
Clamp(x) == Max(0, Min(One, x))

\* PredictiveModels._predict_risk_scores; raw is the regressor's output
_predict_risk_scores(features, raw) ==
    IF "risk_regressor" \notin DOMAIN models THEN <<>>
    ELSE IF WidthMismatch(models["risk_regressor"], features) THEN <<>>
    ELSE LET risk_score == Clamp(raw)
         IN  <<Item("Overall Risk", risk_score, RegressorConfidence, risk_score, "7_days")>>

\* PredictiveModels._predict_time_series
_predict_time_series(location, timeframe) ==
    << Item("Time Series Prediction", TimeSeriesScore, TimeSeriesConfidence,
            TimeSeriesScore, timeframe) >>

\* fault: rain of exactly the threshold counts as heavy
_generate_fallback_predictions_inclusive(location, weather_data) ==
    LET water == IF Truthy(weather_data)
                    /\ Get(weather_data.val, "precipitation", 0) >= HeavyRain
                 THEN <<Item("Water Supply", WaterProbability, WaterConfidence,
                             WaterProbability, "7_days")>>
                 ELSE <<>>
    IN  water \o <<Item("Road & Pothole Issues", RoadProbability, RoadConfidence,
                        RoadProbability, "7_days")>>

\* PredictiveModels._generate_fallback_predictions
_generate_fallback_predictions(location, weather_data) ==
    LET water == IF Truthy(weather_data)
                    /\ Get(weather_data.val, "precipitation", 0) > HeavyRain
                 THEN <<Item("Water Supply", WaterProbability, WaterConfidence,
                             WaterProbability, "7_days")>>
                 ELSE <<>>
    IN  water \o <<Item("Road & Pothole Issues", RoadProbability, RoadConfidence,
                        RoadProbability, "7_days")>>

\* fault: the fallback items are added to whatever the models produced
predict_issues_mixing(location, weather_data, historical_context, timeframe, now, probabilities, raw) ==
    LET ext == _extract_location_features(location, weather_data, historical_context, now)
        features == ext.features
        p1 == IF "issue_classifier" \in DOMAIN models
              THEN _predict_categories(features, probabilities) ELSE <<>>
        p2 == IF "risk_regressor" \in DOMAIN models
              THEN _predict_risk_scores(features, raw) ELSE <<>>
        p3 == IF "time_series" \in DOMAIN models /\ Truthy(historical_context)
              THEN _predict_time_series(location, timeframe) ELSE <<>>
        predictions == p1 \o p2 \o p3
    IN  IF ext.raises THEN _generate_fallback_predictions(location, weather_data)
        ELSE predictions \o _generate_fallback_predictions(location, weather_data)

\* fault: the time-horizon item does not ask for the forecaster
predict_issues_unguarded(location, weather_data, historical_context, timeframe, now, probabilities, raw) ==
    LET ext == _extract_location_features(location, weather_data, historical_context, now)
        features == ext.features
        p1 == IF "issue_classifier" \in DOMAIN models
              THEN _predict_categories(features, probabilities) ELSE <<>>
        p2 == IF "risk_regressor" \in DOMAIN models
              THEN _predict_risk_scores(features, raw) ELSE <<>>
        p3 == IF Truthy(historical_context)
              THEN _predict_time_series(location, timeframe) ELSE <<>>
        predictions == p1 \o p2 \o p3
    IN  IF ext.raises THEN _generate_fallback_predictions(location, weather_data)
        ELSE IF predictions = <<>>
             THEN _generate_fallback_predictions(location, weather_data)
             ELSE predictions

\* PredictiveModels.predict_issues
predict_issues(location, weather_data, historical_context, timeframe, now, probabilities, raw) ==
    LET ext == _extract_location_features(location, weather_data, historical_context, now)
        features == ext.features
        p1 == IF "issue_classifier" \in DOMAIN models
              THEN _predict_categories(features, probabilities) ELSE <<>>
        p2 == IF "risk_regressor" \in DOMAIN models
              THEN _predict_risk_scores(features, raw) ELSE <<>>
        p3 == IF "time_series" \in DOMAIN models /\ Truthy(historical_context)
              THEN _predict_time_series(location, timeframe) ELSE <<>>
        predictions == p1 \o p2 \o p3
    IN  IF ext.raises THEN _generate_fallback_predictions(location, weather_data)
        ELSE IF predictions = <<>>
             THEN _generate_fallback_predictions(location, weather_data)
             ELSE predictions

(***************************************************************************)
(* Exact rationals <<numerator, denominator>> in lowest terms              *)
(***************************************************************************)
RECURSIVE GCD(_, _)
GCD(a, b) == IF b = 0 THEN a ELSE GCD(b, a % b)
Rat(n, d) == LET g == GCD(IF n < 0 THEN 0 - n ELSE n, d) IN <<n \div g, d \div g>>
RZero == Rat(0, 1)
ROne == Rat(One, 1)
RAdd(a, b) == Rat(a[1] * b[2] + b[1] * a[2], a[2] * b[2])
RHalf(a) == Rat(a[1], 2 * a[2])
RLess(a, b) == a[1] * b[2] < b[1] * a[2]
RMax(a, b) == IF RLess(a, b) THEN b ELSE a
RMin(a, b) == IF RLess(b, a) THEN b ELSE a
\* np.mean of a non-empty list
Mean(values) == Rat(SeqSum(values), Len(values))

(***************************************************************************)
(* Risk synthesis and the risk-area scan: services/ml_models.py            *)
(***************************************************************************)
\* risk-level thresholds of PredictiveModels._get_risk_level
CriticalRisk == 80000
HighRisk == 60000
MediumRisk == 40000
\* the score above which a grid point is a risk area
RiskAreaThreshold == 60000
\* kilometres per degree, grid indices -2..2, noise uniform(0, 0.3)
KmPerDegree == 111
GridHalf == 2
MaxNoise == 30000

\* PredictiveModels._get_risk_level
_get_risk_level(risk_score) ==
    IF risk_score >= CriticalRisk THEN "critical"
    ELSE IF risk_score >= HighRisk THEN "high"
    ELSE IF risk_score >= MediumRisk THEN "medium"
    ELSE "low"

\* [p.get(key, 0) for p in items]
Field(items, key) == [i \in DOMAIN items |-> Get(items[i], key, 0)]

\* fault: the two risks are always averaged
calculate_overall_risk_averaging(predictions, risk_areas) ==
    IF predictions = <<>> /\ risk_areas = <<>> THEN RZero
    ELSE
    LET prediction_risk ==
            IF predictions # <<>>
            THEN RHalf(RAdd(Mean(Field(predictions, "probability")),
                            Mean(Field(predictions, "risk_score"))))
            ELSE RZero
        area_risk ==
            IF risk_areas # <<>> THEN Mean(Field(risk_areas, "risk_score")) ELSE RZero
    IN  RMin(ROne, RHalf(RAdd(prediction_risk, area_risk)))

\* PredictiveModels.calculate_overall_risk
calculate_overall_risk(predictions, risk_areas) ==
    IF predictions = <<>> /\ risk_areas = <<>> THEN RZero
    ELSE
    LET prediction_risk ==
            IF predictions # <<>>
            THEN RHalf(RAdd(Mean(Field(predictions, "probability")),
                            Mean(Field(predictions, "risk_score"))))
            ELSE RZero
        area_risk ==
            IF risk_areas # <<>> THEN Mean(Field(risk_areas, "risk_score")) ELSE RZero
        overall_risk ==
            IF RLess(RZero, prediction_risk) /\ RLess(RZero, area_risk)
            THEN RHalf(RAdd(prediction_risk, area_risk))
            ELSE RMax(prediction_risk, area_risk)
    IN  RMin(ROne, overall_risk)

\* np.cos(np.radians(lat)) for the latitudes the scans are centred on
CosTable ==
    [lat \in {CenterLat, CenterLat + One, CenterLat + 2 * One} |->
        IF lat = CenterLat THEN 91814
        ELSE IF lat = CenterLat + One THEN 91109
        ELSE 90375]
Cos(lat) == CosTable[lat]

\* radius_km / 111.0 and radius_km / (111.0 * cos(lat)), in 1e-5 degree
LatOffset(radius_km) == (radius_km * One) \div KmPerDegree
LngOffset(radius_km, lat) == (LatOffset(radius_km) * One) \div Cos(lat)

\* sqrt(dlat**2 + dlng**2) of offsets in 1e-5 degree, to 1e-4 degree
Abs(x) == IF x < 0 THEN 0 - x ELSE x
Hypot(dlat, dlng) ==
    10 * ISqrt((Abs(dlat) \div 10) * (Abs(dlat) \div 10)
               + (Abs(dlng) \div 10) * (Abs(dlng) \div 10))

\* fault: the grid steps by the whole offset
_generate_location_grid_wide(center, radius_km) ==
    LET lat_offset == LatOffset(radius_km)
        lng_offset == LngOffset(radius_km, center["lat"])
        side == 2 * GridHalf + 1
    IN  [k \in 1..(side * side) |->
            LET i == (k - 1) \div side - GridHalf
                j == ((k - 1) % side) - GridHalf
            IN  [lat |-> center["lat"] + i * lat_offset,
                 lng |-> center["lng"] + j * lng_offset]]

\* PredictiveModels._generate_location_grid: i outer, j inner, both -2..2
_generate_location_grid(center, radius_km) ==
    LET lat_offset == LatOffset(radius_km)
        lng_offset == LngOffset(radius_km, center["lat"])
        side == 2 * GridHalf + 1
    IN  [k \in 1..(side * side) |->
            LET i == (k - 1) \div side - GridHalf
                j == ((k - 1) % side) - GridHalf
            IN  [lat |-> center["lat"] + (i * lat_offset) \div 2,
                 lng |-> center["lng"] + (j * lng_offset) \div 2]]

\* PredictiveModels._calculate_location_risk; noise is np.random.uniform(0, 0.3)
_calculate_location_risk(location, noise) ==
    LET distance == Hypot(location["lat"] - CenterLat, location["lng"] - CenterLng)
        base_risk == Min(One, distance \div 2)
    IN  Min(One, base_risk + noise)

\* fault: the scan returns the points above the medium threshold
RECURSIVE ScanGridMedium(_, _, _)
ScanGridMedium(grid, noise, k) ==
    IF k > Len(grid) THEN <<>>
    ELSE LET risk_score == _calculate_location_risk(grid[k], noise[k])
             rest == ScanGridMedium(grid, noise, k + 1)
         IN  IF risk_score > MediumRisk
             THEN << [ location |-> grid[k],
                       risk_level |-> _get_risk_level(risk_score),
                       risk_score |-> risk_score ] >> \o rest
             ELSE rest

\* the risk areas among grid[k..], noise[k] being the draw for grid[k]
RECURSIVE ScanGrid(_, _, _)
ScanGrid(grid, noise, k) ==
    IF k > Len(grid) THEN <<>>
    ELSE LET risk_score == _calculate_location_risk(grid[k], noise[k])
             rest == ScanGrid(grid, noise, k + 1)
         IN  IF risk_score > RiskAreaThreshold
             THEN << [ location |-> grid[k],
                       risk_level |-> _get_risk_level(risk_score),
                       risk_score |-> risk_score ] >> \o rest
             ELSE rest

\* fault: no except clause: the KeyError of a centre without coordinates
\* leaves the call, and the caller gets the error in place of the list
identify_risk_areas_raising(center_location, radius_km, noise) ==
    IF ~({"lat", "lng"} \subseteq DOMAIN center_location) THEN <<[raised |-> "KeyError"]>>
    ELSE ScanGrid(_generate_location_grid(center_location, radius_km), noise, 1)

\* PredictiveModels.identify_risk_areas (predicted_issues and
\* population_density, random and read by nothing, are left out); an error,
\* such as a centre without coordinates, gives the empty list
identify_risk_areas(center_location, radius_km, noise) ==
    IF ~({"lat", "lng"} \subseteq DOMAIN center_location) THEN <<>>
    ELSE ScanGrid(_generate_location_grid(center_location, radius_km), noise, 1)

(***************************************************************************)
(* The heatmap: services/visualization.py                                  *)
(***************************************************************************)
\* risk-level thresholds of VisualizationService._get_risk_level
VizCriticalRisk == 80000
VizHighRisk == 60000
VizMediumRisk == 40000
\* urban half-width 0.1 degree; urban factor 1.0 or 0.6, in tenths
UrbanHalfWidth == 10000
UrbanTenths == 10
RuralTenths == 6
\* weights of distance, noise and infrastructure, in tenths
DistanceWeight == 3
RandomWeight == 4
InfrastructureWeight == 3
\* distance decay per degree
DecayPerDegree == 10
\* summary thresholds
SummaryHigh == 60000
SummaryCritical == 80000

\* fault: a score on a threshold falls into the lower level
viz_get_risk_level_exclusive(risk_score) ==
    IF risk_score > VizCriticalRisk THEN "critical"
    ELSE IF risk_score > VizHighRisk THEN "high"
    ELSE IF risk_score > VizMediumRisk THEN "medium"
    ELSE "low"

\* VisualizationService._get_risk_level
viz_get_risk_level(risk_score) ==
    IF risk_score >= VizCriticalRisk THEN "critical"
    ELSE IF risk_score >= VizHighRisk THEN "high"
    ELSE IF risk_score >= VizMediumRisk THEN "medium"
    ELSE "low"

\* VisualizationService._get_infrastructure_risk; age_factor is uniform(0.3, 0.9)
_get_infrastructure_risk(lat, lng, age_factor) ==
    LET urban_factor == IF Abs(lat - CenterLat) < UrbanHalfWidth
                           /\ Abs(lng - CenterLng) < UrbanHalfWidth
                        THEN UrbanTenths ELSE RuralTenths
    IN  (urban_factor * age_factor) \div 10

\* VisualizationService._calculate_grid_risk; random_factor is uniform(0.2, 0.8)
_calculate_grid_risk(lat, lng, center_lat, center_lng, random_factor, age_factor) ==
    LET distance == Hypot(lat - center_lat, lng - center_lng)
        distance_factor == Max(0, One - distance * DecayPerDegree)
        infrastructure_risk == _get_infrastructure_risk(lat, lng, age_factor)
        risk_score == (distance_factor * DistanceWeight + random_factor * RandomWeight
                       + infrastructure_risk * InfrastructureWeight) \div 10
    IN  Min(One, risk_score)

\* np.linspace(start, stop, num)[i], i from 0
Linspace(start, stop, num, i) ==
    IF num = 1 THEN start ELSE start + (i * (stop - start)) \div (num - 1)

RECURSIVE SeqMax(_)
SeqMax(s) == IF Len(s) = 1 THEN s[1] ELSE Max(Head(s), SeqMax(Tail(s)))
RECURSIVE SeqMin(_)
SeqMin(s) == IF Len(s) = 1 THEN s[1] ELSE Min(Head(s), SeqMin(Tail(s)))
CountAbove(s, t) == Cardinality({i \in DOMAIN s : s[i] > t})

\* VisualizationService.generate_risk_heatmap; np.max of no cells raises and
\* the result is then the empty dict
generate_risk_heatmap(center_lat, center_lng, radius_km, resolution, random, age) ==
    LET lat_offset == LatOffset(radius_km)
        lng_offset == LngOffset(radius_km, center_lat)
        heatmap_data ==
            [k \in 1..(resolution * resolution) |->
                LET i == (k - 1) \div resolution
                    j == (k - 1) % resolution
                    lat == Linspace(center_lat - lat_offset, center_lat + lat_offset,
                                    resolution, i)
                    lng == Linspace(center_lng - lng_offset, center_lng + lng_offset,
                                    resolution, j)
                    risk_score == _calculate_grid_risk(lat, lng, center_lat, center_lng,
                                                       random[k], age[k])
                IN  [ lat |-> lat, lng |-> lng, risk_score |-> risk_score,
                      risk_level |-> viz_get_risk_level(risk_score),
                      intensity |-> Min(One, risk_score) ]]
        risk_scores == Field(heatmap_data, "risk_score")
    IN  IF resolution = 0 THEN EmptyDict
        ELSE [ heatmap_data |-> heatmap_data,
               bounds |-> [ north |-> center_lat + lat_offset,
                            south |-> center_lat - lat_offset,
                            east |-> center_lng + lng_offset,
                            west |-> center_lng - lng_offset ],
               summary |-> [ total_points |-> Len(heatmap_data),
                             avg_risk |-> Mean(risk_scores),
                             max_risk |-> SeqMax(risk_scores),
                             min_risk |-> SeqMin(risk_scores),
                             high_risk_points |-> CountAbove(risk_scores, SummaryHigh),
                             critical_risk_points |->
                                 CountAbove(risk_scores, SummaryCritical) ],
               center |-> [lat |-> center_lat, lng |-> center_lng],
               radius_km |-> radius_km,
               resolution |-> resolution ]

(***************************************************************************)
(* Actions                                                                 *)
(***************************************************************************)
\* The service runs on a single event loop.  train_models_task is a
\* coroutine without an await: from its first statement to its last the loop
\* runs nothing else, no handler and no other task.
NoResp == [op |-> "none"]

\* fault: the task yields the loop between its statements
RunningYields == FALSE

\* train_models_task holds the loop
Running == pc # 0

\* a handler starts when the loop is free and the previous call has returned
Idle == ~Running /\ resp = NoResp

registry == << models, scalers, label_encoders, feature_columns, model_metrics,
               trained_models, model_last_updated, models_trained, runs, pc, data,
               loaded, pending >>

\* the caller takes the result of the last call
Return ==
    /\ resp # NoResp
    /\ resp' = NoResp
    /\ UNCHANGED <<registry, inbox>>

\* uvicorn listens once startup_event, and with it the first run, is over
Serving == ~loaded /\ (runs > 1 \/ (runs = 1 /\ pc = 0))

\* a client sends POST /train
SendTrain ==
    /\ Serving
    /\ Len(inbox) < MaxInbox
    /\ inbox' = Append(inbox, pc # 0)
    /\ UNCHANGED <<registry, resp>>

\* fault: the handler answers and adds no task
add_task_dropped(tasks) == tasks

\* background_tasks.add_task(train_models_task)
add_task(tasks) == tasks + 1

\* main.py train_models, the handler of POST /train: it adds the task and
\* answers; the task starts after the response has been sent
TrainModels ==
    /\ Idle /\ inbox # <<>>
    /\ runs + pending < MaxRuns
    /\ inbox' = Tail(inbox)
    /\ pending' = add_task(pending)
    /\ resp' = [ op |-> "train_models", status |-> "training",
                 message |-> "Model training started in background",
                 at |-> runs, in_flight |-> Head(inbox) ]
    /\ UNCHANGED << models, scalers, label_encoders, feature_columns, model_metrics,
                    trained_models, model_last_updated, models_trained, runs, pc, data,
                    loaded >>

GroupSizes == (SequenceLength - 1)..MaxGroupLen
GroupShapes == {<<a, b>> : a \in {1} \cup GroupSizes, b \in GroupSizes}

\* train_models_task up to the loop: the first run is the one startup_event
\* awaits, the later ones are the tasks the /train handler added
TrainBegin ==
    /\ Idle /\ ~loaded /\ runs < MaxRuns
    /\ runs = 0 \/ pending > 0
    /\ pending' = IF runs = 0 THEN pending ELSE pending - 1
    /\ \E groups \in GroupShapes : data' = load_training_data(groups, TRUE, TRUE)
    /\ runs' = runs + 1
    /\ pc' = 1
    /\ models_trained' = EmptyDict
    /\ UNCHANGED << models, scalers, label_encoders, feature_columns, model_metrics,
                    trained_models, model_last_updated, loaded, inbox, resp >>

\* train_issue_classifier and its loop iteration
TrainIssueClassifier ==
    /\ pc = 1
    /\ \E fitOK \in BOOLEAN :
        LET prep == _prepare_classification_data(data, label_encoders)
            ok == ~prep.raises /\ ~HasStrings(prep.data, prep.feature_cols) /\ fitOK
            model == Fitted(runs, prep.feature_cols)
        IN  /\ label_encoders' = prep.label_encoders
            /\ feature_columns' = IF prep.raises THEN feature_columns ELSE prep.feature_cols
            /\ models' = IF ok THEN Put(models, "issue_classifier", model) ELSE models
            /\ scalers' = IF ok THEN Put(scalers, "issue_classifier", model) ELSE scalers
            /\ model_metrics' = IF ok THEN Put(model_metrics, "issue_classifier", runs)
                                ELSE model_metrics
            /\ Step(1, IF ok THEN Some(model) ELSE None, prep.data)

\* fault: the regressor is stored before it is fitted and evaluated
TrainRiskRegressorStoring ==
    /\ pc = 2
    /\ \E fitOK \in BOOLEAN :
        LET prep == _prepare_regression_data(data)
            ok == ~prep.raises /\ ~HasStrings(data, prep.feature_cols) /\ fitOK
            model == Fitted(runs, prep.feature_cols)
        IN  /\ models' = Put(models, "risk_regressor", model)
            /\ model_metrics' = IF ok THEN Put(model_metrics, "risk_regressor", runs)
                                ELSE model_metrics
            /\ Step(2, IF ok THEN Some(model) ELSE None, data)
    /\ UNCHANGED <<scalers, label_encoders, feature_columns>>

\* train_risk_regressor and its loop iteration
TrainRiskRegressor ==
    /\ pc = 2
    /\ \E fitOK \in BOOLEAN :
        LET prep == _prepare_regression_data(data)
            ok == ~prep.raises /\ ~HasStrings(data, prep.feature_cols) /\ fitOK
            model == Fitted(runs, prep.feature_cols)
        IN  /\ models' = IF ok THEN Put(models, "risk_regressor", model) ELSE models
            /\ model_metrics' = IF ok THEN Put(model_metrics, "risk_regressor", runs)
                                ELSE model_metrics
            /\ Step(2, IF ok THEN Some(model) ELSE None, data)
    /\ UNCHANGED <<scalers, label_encoders, feature_columns>>

\* train_time_series_model and its loop iteration
TrainTimeSeries ==
    /\ pc = 3
    /\ \E fitOK \in BOOLEAN :
        LET sequences == _prepare_time_series_data(data)
            ok == sequences # 0 /\ fitOK
            model == Fitted(runs, NumericCols(data))
        IN  /\ models' = IF ok THEN Put(models, "time_series", model) ELSE models
            /\ model_metrics' = IF ok THEN Put(model_metrics, "time_series", runs)
                                ELSE model_metrics
            /\ Step(3, IF ok THEN Some(model) ELSE None, data)
    /\ UNCHANGED <<scalers, label_encoders, feature_columns>>

\* train_anomaly_detector and its loop iteration
TrainAnomalyDetector ==
    /\ pc = 4
    /\ \E fitOK \in BOOLEAN :
        LET ok == fitOK
            model == Fitted(runs, NumericCols(data))
        IN  /\ models' = IF ok THEN Put(models, "anomaly_detector", model) ELSE models
            /\ Step(4, IF ok THEN Some(model) ELSE None, data)
    /\ UNCHANGED <<scalers, label_encoders, feature_columns, model_metrics>>

Init ==
    /\ models = EmptyDict
    /\ scalers = EmptyDict
    /\ label_encoders = {}
    /\ feature_columns = <<>>
    /\ model_metrics = EmptyDict
    /\ trained_models = EmptyDict
    /\ model_last_updated = EmptyDict
    /\ models_trained = EmptyDict
    /\ runs = 0
    /\ pc = 0
    /\ data = EmptyFrame
    /\ loaded = FALSE
    /\ inbox = <<>>
    /\ pending = 0
    /\ resp = NoResp

\* the inputs the calls are tried on
Locations ==
    { [lat |-> CenterLat, lng |-> CenterLng],
      [lat |-> CenterLat + 5590, lng |-> CenterLng + 4040],
      EmptyDict }
WeatherInputs ==
    { None, Some(EmptyDict),
      Some([precipitation |-> HeavyRain + 5, temperature |-> 30, humidity |-> 70]),
      Some([precipitation |-> HeavyRain, temperature |-> 40, humidity |-> 70]),
      Some([precipitation |-> HeavyRain + 1]),
      Some([temperature |-> 3]) }
HistoricalInputs ==
    { None, Some(EmptyDict),
      Some([total_issues |-> 15, avg_resolution_time |-> 4, recent_trend |-> "increasing"]),
      Some([recent_trend |-> "decreasing"]) }
Timeframes == {"1_day", "7_days", "30_days"}
Nows == { [weekday |-> 2, month |-> 1, hour |-> 9],
          [weekday |-> 6, month |-> 7, hour |-> 20] }
\* rows predict_proba may return over the nine classes
ProbVectors ==
    { <<One, 0, 0, 0, 0, 0, 0, 0, 0>>,
      <<15000, 15000, 15000, 15000, 15000, 15000, 10000, 0, 0>>,
      <<5000, 30000, 10000, 30000, 25000, 0, 0, 0, 0>>,
      <<11111, 11111, 11111, 11111, 11111, 11111, 11111, 11111, 11112>> }
\* values the regressor may return
RawScores == {0 - One \div 2, 0, One \div 2, One, One + One \div 2}

\* the inference schemas: what the adapter emits with and without context
FullKeys ==
    Keys(_extract_location_features([lat |-> CenterLat, lng |-> CenterLng],
            Some([precipitation |-> 0]), Some([total_issues |-> 0]),
            [weekday |-> 0, month |-> 1, hour |-> 0]).features)
BaseKeys ==
    Keys(_extract_location_features([lat |-> CenterLat, lng |-> CenterLng],
            None, None, [weekday |-> 0, month |-> 1, hour |-> 0]).features)
\* column lists the artifacts of a models directory may have been fitted on
ArtifactSchemas == {FullKeys, BaseKeys}
LoadableModels == {"issue_classifier", "risk_regressor", "anomaly_detector"}

\* train_models.py load_models: a PredictiveModels filled from the *_latest
\* artifacts save_models wrote: the estimators present, the classifier's
\* scaler and the feature columns beside the classifier
LoadModels ==
    /\ Idle /\ runs = 0 /\ ~loaded
    /\ \E present \in SUBSET LoadableModels, cols \in ArtifactSchemas :
        /\ models' = [n \in present |-> Fitted(0, cols)]
        /\ scalers' = [n \in present \cap {"issue_classifier"} |-> Fitted(0, cols)]
        /\ feature_columns' = IF "issue_classifier" \in present THEN cols ELSE <<>>
    /\ loaded' = TRUE
    /\ UNCHANGED << label_encoders, model_metrics, trained_models, model_last_updated,
                    models_trained, runs, pc, data, inbox, pending, resp >>

\* whether the estimator would be run on this request's feature vector
Runs(name, features) ==
    /\ name \in DOMAIN models
    /\ ~WidthMismatch(models[name], features)
    /\ name \in DOMAIN scalers => ~WidthMismatch(scalers[name], features)

\* a call of PredictiveModels.predict_issues.  probabilities and raw are what
\* the classifier and the regressor return when they are run.  The call
\* always returns a list: every error inside is caught and logged.
PredictIssues ==
    /\ Idle
    /\ \E location \in Locations, weather_data \in WeatherInputs,
          historical_context \in HistoricalInputs, timeframe \in Timeframes, now \in Nows :
        LET ext == _extract_location_features(location, weather_data,
                                              historical_context, now)
        IN  \E probabilities \in IF ~ext.raises /\ Runs("issue_classifier", ext.features)
                                 THEN ProbVectors ELSE {<<>>},
               raw \in IF ~ext.raises /\ Runs("risk_regressor", ext.features)
                       THEN RawScores ELSE {0} :
                resp' = [ op |-> "predict_issues",
                          location |-> location,
                          weather_data |-> weather_data,
                          historical_context |-> historical_context,
                          timeframe |-> timeframe,
                          registry |-> DOMAIN models,
                          raises |-> ext.raises,
                          features |-> ext.features,
                          probabilities |-> probabilities,
                          raw |-> raw,
                          outcome |-> "returned",
                          predictions |-> predict_issues(location, weather_data,
                              historical_context, timeframe, now, probabilities, raw) ]
    /\ UNCHANGED <<registry, inbox>>

\* The calls below read nothing of the registry; they are tried on the
\* instance as constructed.
Fresh == Idle /\ runs = 0 /\ ~loaded

SeqsUpTo(S, n) == UNION {[1..m -> S] : m \in 0..n}
\* n draws that repeat the draws f
Periodic(f, n) == [k \in 1..n |-> f[((k - 1) % Len(f)) + 1]]

ScanCenters ==
    { [lat |-> CenterLat, lng |-> CenterLng],
      [lat |-> CenterLat + One, lng |-> CenterLng],
      [lat |-> CenterLat + 2 * One, lng |-> CenterLng + One],
      EmptyDict }
Radii == {5, 10}
\* draws of uniform(0, 0.3), uniform(0.2, 0.8) and uniform(0.3, 0.9)
NoiseLevels == {0, MaxNoise \div 2, MaxNoise - 1}
RandomLevels == {20000, 50000, 79999}
AgeLevels == {30000, 89999}

\* a call of PredictiveModels.identify_risk_areas
IdentifyRiskAreas ==
    /\ Fresh
    /\ \E center_location \in ScanCenters, radius_km \in Radii,
          f \in [1..NoiseDraws -> NoiseLevels] :
        LET noise == Periodic(f, (2 * GridHalf + 1) * (2 * GridHalf + 1))
            grid == IF {"lat", "lng"} \subseteq DOMAIN center_location
                    THEN _generate_location_grid(center_location, radius_km) ELSE <<>>
        IN  resp' = [ op |-> "identify_risk_areas",
                      center_location |-> center_location,
                      radius_km |-> radius_km,
                      grid |-> grid,
                      noise |-> [k \in DOMAIN grid |-> noise[k]],
                      scores |-> [k \in DOMAIN grid |->
                                    _calculate_location_risk(grid[k], noise[k])],
                      risk_areas |-> identify_risk_areas(center_location, radius_km,
                                                         noise) ]
    /\ UNCHANGED <<registry, inbox>>

ItemSamples ==
    { [probability |-> 0, risk_score |-> 0],
      [probability |-> One \div 2, risk_score |-> One \div 2],
      [probability |-> 30000, risk_score |-> 70000],
      [probability |-> One, risk_score |-> One],
      [category |-> "Other"] }
AreaSamples ==
    { [risk_score |-> 0], [risk_score |-> 30000], [risk_score |-> 70000],
      [risk_score |-> One] }

\* a call of PredictiveModels.calculate_overall_risk
CalculateOverallRisk ==
    /\ Fresh
    /\ \E predictions \in SeqsUpTo(ItemSamples, MaxItems),
          risk_areas \in SeqsUpTo(AreaSamples, MaxAreas) :
        resp' = [ op |-> "calculate_overall_risk",
                  predictions |-> predictions,
                  risk_areas |-> risk_areas,
                  overall_risk |-> calculate_overall_risk(predictions, risk_areas) ]
    /\ UNCHANGED <<registry, inbox>>

\* a call of _get_risk_level of both services on the same score
GetRiskLevel ==
    /\ Fresh
    /\ \E risk_score \in 0..One :
        resp' = [ op |-> "_get_risk_level",
                  risk_score |-> risk_score,
                  risk_level |-> _get_risk_level(risk_score),
                  viz_risk_level |-> viz_get_risk_level(risk_score) ]
    /\ UNCHANGED <<registry, inbox>>

HeatmapCenters == {c \in ScanCenters : c # EmptyDict}

\* a call of VisualizationService.generate_risk_heatmap
RiskHeatmap ==
    /\ Fresh
    /\ \E center \in HeatmapCenters, radius_km \in Radii, resolution \in 0..MaxResolution,
          f \in [1..NoiseDraws -> RandomLevels], g \in [1..NoiseDraws -> AgeLevels] :
        resp' = [ op |-> "generate_risk_heatmap",
                  center |-> center,
                  radius_km |-> radius_km,
                  resolution |-> resolution,
                  random |-> Periodic(f, resolution * resolution),
                  age |-> Periodic(g, resolution * resolution),
                  result |-> generate_risk_heatmap(center["lat"], center["lng"], radius_km,
                        resolution, Periodic(f, resolution * resolution),
                        Periodic(g, resolution * resolution)) ]
    /\ UNCHANGED <<registry, inbox>>

\* DataProcessor._get_season: the label the pipeline writes into 'season'
dp_get_season(month) ==
    IF month \in {12, 1, 2} THEN "Winter"
    ELSE IF month \in {3, 4, 5} THEN "Spring"
    ELSE IF month \in {6, 7, 8} THEN "Summer"
    ELSE "Fall"

\* the season labels in the order np.unique sorts them
SortedSeasons == <<"Fall", "Spring", "Summer", "Winter">>
Months == 1..12
\* LabelEncoder.fit: classes_ is the sorted distinct values of the column
LabelEncoderFit(values) == Without(SortedSeasons, Range(SortedSeasons) \ values)
\* LabelEncoder.transform: the index of the value in classes_
LabelEncoderTransform(classes, v) == (CHOOSE i \in DOMAIN classes : classes[i] = v) - 1

\* the season of one month as the two sides compute it: the pipeline's label
\* encoded by the encoder _prepare_classification_data fits on the season
\* column of the sample table (a year of dates), and the adapter's number
GetSeason ==
    /\ Fresh
    /\ \E month \in Months :
        LET classes == LabelEncoderFit({dp_get_season(m) : m \in Months})
        IN  resp' = [ op |-> "_get_season",
                      month |-> month,
                      label |-> dp_get_season(month),
                      trained |-> LabelEncoderTransform(classes, dp_get_season(month)),
                      served |-> _get_season(month) ]
    /\ UNCHANGED <<registry, inbox>>

\* a call of PredictiveModels._prepare_time_series_data, on the pipeline's
\* table or on a table without its date and location_key columns
PrepareTimeSeriesData ==
    /\ Fresh
    /\ \E groups \in GroupShapes :
      \E df \in { load_training_data(groups, TRUE, TRUE),
                  Frame(<<"latitude", "longitude", "risk_score">>, {}, groups) } :
        LET grouped == HasCol(df, "location_key") /\ HasCol(df, "date")
        IN  resp' = [ op |-> "_prepare_time_series_data",
                      groups |-> df.groups,
                      keyed |-> grouped,
                      sequences |-> IF grouped
                                    THEN [g \in DOMAIN df.groups |-> GroupSequences(df.groups[g])]
                                    ELSE <<>>,
                      count |-> _prepare_time_series_data(df) ]
    /\ UNCHANGED <<registry, inbox>>

\* a call of DataProcessor.load_training_data; a loader whose source is
\* unavailable returns an empty frame (its except path) and the join is skipped
LoadTrainingData ==
    /\ Fresh
    /\ \E groups \in GroupShapes, weatherOK \in BOOLEAN, demographicOK \in BOOLEAN :
        resp' = [ op |-> "load_training_data",
                  weather |-> weatherOK,
                  demographic |-> demographicOK,
                  table |-> load_training_data(groups, weatherOK, demographicOK) ]
    /\ UNCHANGED <<registry, inbox>>

\* forecast periods of 3 hours the weather service asks for: every timeframe
\* that is not '1_day' or '7_days' takes the last branch
ForecastPeriods(timeframe) ==
    IF timeframe = "1_day" THEN 8
    ELSE IF timeframe = "7_days" THEN 56
    ELSE 240

\* WeatherService._generate_demo_weather_data, which get_weather_forecast
\* returns under the demo key and on every error: the readings are under
\* 'current', the aggregates under 'forecast' (the descriptive fields,
\* read by nothing, are left out)
_generate_demo_weather_data(timeframe, precipitation, temperature) ==
    [ current |-> [ temperature |-> temperature, precipitation |-> precipitation ],
      forecast |-> [ forecast_periods |-> Min(ForecastPeriods(timeframe), 40),
                     max_precipitation |-> precipitation ],
      timeframe |-> timeframe,
      source |-> "demo_data" ]

\* days of history DataProcessor.get_historical_context looks back over
HistoryDays(timeframe) ==
    IF timeframe = "1_day" THEN 1
    ELSE IF timeframe = "7_days" THEN 7
    ELSE 30

\* DataProcessor.get_historical_context: the sample context; the date range
\* is computed and not used
get_historical_context(location, timeframe, trend) ==
    [ total_issues |-> 15, avg_resolution_time |-> 4, recent_trend |-> trend,
      most_common_category |-> "Road & Pothole Issues" ]

\* PredictionRequest.timeframe is a str: any string passes validation
RequestTimeframes == Timeframes \cup {"90_days"}
\* request locations: the reference centre, a point east of it, and a
\* location without coordinates
RequestLocations ==
    { [lat |-> CenterLat, lng |-> CenterLng],
      [lat |-> CenterLat, lng |-> CenterLng + 4040],
      EmptyDict }
\* noise levels of the scan a request triggers, one level for all 25 points
RequestNoise == {0, MaxNoise - 1}
\* identify_risk_areas(request.location, radius_km=10) for each request
\* location and noise level; the scan reads nothing of the registry
RequestScans ==
    [ location \in RequestLocations |->
        [ level \in RequestNoise |->
            identify_risk_areas(location, 10,
                [k \in 1..((2 * GridHalf + 1) * (2 * GridHalf + 1)) |-> level]) ] ]
\* precipitation readings of the weather provider
ProviderPrecipitations == {0, HeavyRain + 5}

\* main.py predict_issues, the handler of POST /predict.  An error inside,
\* such as request.location["lat"] on a location without it, is answered 500.
Predict ==
    /\ Idle /\ Serving
    /\ \E location \in RequestLocations, timeframe \in RequestTimeframes,
          include_weather \in BOOLEAN, include_historical \in BOOLEAN,
          level \in RequestNoise :
        \E precipitation \in IF include_weather THEN ProviderPrecipitations ELSE {0} :
        LET now == [weekday |-> 2, month |-> 1, hour |-> 9]
            trend == "increasing"
            weather_data ==
                IF include_weather
                THEN Some(_generate_demo_weather_data(timeframe, precipitation, 30))
                ELSE None
            historical_context ==
                IF include_historical
                THEN Some(get_historical_context(location, timeframe, trend))
                ELSE None
            ext == _extract_location_features(location, weather_data,
                                              historical_context, now)
        IN  \E probabilities \in IF ~ext.raises /\ Runs("issue_classifier", ext.features)
                                 THEN ProbVectors ELSE {<<>>},
               raw \in IF ~ext.raises /\ Runs("risk_regressor", ext.features)
                       THEN RawScores ELSE {0} :
            LET predictions == predict_issues(location, weather_data, historical_context,
                                              timeframe, now, probabilities, raw)
                risk_areas == RequestScans[location][level]
                request == [ location |-> location, timeframe |-> timeframe,
                             include_weather |-> include_weather,
                             include_historical |-> include_historical ]
            IN  resp' =
                    IF include_weather /\ ~({"lat", "lng"} \subseteq DOMAIN location)
                    THEN [ op |-> "predict", request |-> request, status_code |-> 500 ]
                    ELSE [ op |-> "predict", request |-> request, status_code |-> 200,
                           success |-> TRUE,
                           predictions |-> predictions,
                           risk_areas |-> risk_areas,
                           overall_risk_score |->
                               calculate_overall_risk(predictions, risk_areas),
                           weather_context |-> weather_data,
                           historical_context |-> historical_context,
                           model_info |-> [ models_used |-> DOMAIN trained_models ] ]
    /\ UNCHANGED <<registry, inbox>>

\* main.py get_model_status; no estimator has an attribute named accuracy,
\* so getattr(..., "accuracy", None) is None
get_model_status ==
    [ name \in Range(Variants) |->
        [ status |-> IF name \in DOMAIN trained_models THEN "trained" ELSE "not_trained",
          last_updated |-> IF name \in DOMAIN model_last_updated
                           THEN Some(model_last_updated[name]) ELSE None,
          accuracy |-> None ] ]

\* GET /models/status, served once the startup run is over
GetModelStatus ==
    /\ Idle /\ ~loaded /\ runs >= 1
    /\ resp' = [op |-> "get_model_status", models |-> get_model_status]
    /\ UNCHANGED <<registry, inbox>>

Next ==
    \/ TrainBegin
    \/ TrainIssueClassifier
    \/ TrainRiskRegressor
    \/ TrainTimeSeries
    \/ TrainAnomalyDetector
    \/ LoadModels
    \/ PredictIssues
    \/ IdentifyRiskAreas
    \/ CalculateOverallRisk
    \/ RiskHeatmap
    \/ GetRiskLevel
    \/ LoadTrainingData
    \/ PrepareTimeSeriesData
    \/ GetSeason
    \/ Predict
    \/ GetModelStatus
    \/ SendTrain
    \/ TrainModels
    \/ Return

Spec == Init /\ [][Next]_vars

\* Scheduling.  A response is sent; a task the loop holds runs: asyncio's
\* ready queue is first in, first out, so the handlers that run while the
\* task waits cannot keep it from starting; each train_* call returns.
\* The second conjunct is strong fairness of TrainBegin and the third is weak
\* fairness of the four Train* steps, each with its enabling condition
\* written out: TrainBegin is the one step that takes pc from 0 to 1 and is
\* enabled exactly where its guard holds, and in a run (pc # 0) exactly one
\* Train* step is enabled and it changes pc.
Fairness ==
    /\ WF_vars(Return)
    /\ \/ <>[]~(Idle /\ ~loaded /\ runs < MaxRuns /\ (runs = 0 \/ pending > 0))
       \/ []<><<pc = 0 /\ pc' = 1>>_vars
    /\ \/ []<>(~Running)
       \/ []<><<Running /\ pc' # pc>>_vars

\* the training side of the service alone: the runs, the /train requests and
\* their responses
TrainNext ==
    \/ TrainBegin
    \/ TrainIssueClassifier
    \/ TrainRiskRegressor
    \/ TrainTimeSeries
    \/ TrainAnomalyDetector
    \/ SendTrain
    \/ TrainModels
    \/ GetModelStatus
    \/ Return
TrainSpec == Init /\ [][TrainNext]_vars /\ Fairness

(***************************************************************************)
(* Properties                                                              *)
(***************************************************************************)
IsPredict == resp.op = "predict_issues"
PrecipitationOf(w) ==
    IF w.some /\ "precipitation" \in DOMAIN w.val THEN w.val["precipitation"] ELSE 0
WaterItems(ps) == {i \in DOMAIN ps : ps[i].category = "Water Supply"}

\* C1: with an empty registry, predict_issues returns a 'Water Supply' item
\* of probability 0.7 when the weather context carries a precipitation above
\* 20, and no 'Water Supply' item when the precipitation is 20 or less or no
\* weather is supplied.
C1_WaterSupplyFallback ==
    (IsPredict /\ resp.registry = {}) =>
        IF PrecipitationOf(resp.weather_data) > 20
        THEN \E i \in WaterItems(resp.predictions) :
                resp.predictions[i].probability = 70000
        ELSE WaterItems(resp.predictions) = {}

C1_Witness ==
    /\ IsPredict /\ resp.registry = {}
    /\ PrecipitationOf(resp.weather_data) = 25
    /\ \E i \in WaterItems(resp.predictions) : resp.predictions[i].probability = 70000

\* C2: with an empty registry and no weather context, predict_issues returns
\* exactly one item, 'Road & Pothole Issues' with probability 0.4, whatever
\* the location, the timeframe and the historical context.
C2_RoadFallbackOnly ==
    (IsPredict /\ resp.registry = {} /\ ~resp.weather_data.some) =>
        /\ Len(resp.predictions) = 1
        /\ resp.predictions[1].category = "Road & Pothole Issues"
        /\ resp.predictions[1].probability = 40000

C2_Witness ==
    /\ IsPredict /\ resp.registry = {} /\ ~resp.weather_data.some
    /\ Truthy(resp.historical_context)
    /\ resp.timeframe = "30_days"
    /\ Len(resp.predictions) = 1
    /\ resp.predictions[1].probability = 40000

\* the synthesis rule, computed item by item
RECURSIVE ItemMeanSum(_)
ItemMeanSum(items) ==
    IF items = <<>> THEN RZero
    ELSE RAdd(RHalf(Rat(Get(Head(items), "probability", 0)
                        + Get(Head(items), "risk_score", 0), 1)),
              ItemMeanSum(Tail(items)))
RuleP(items) ==
    IF items = <<>> THEN RZero
    ELSE LET t == ItemMeanSum(items) IN Rat(t[1], t[2] * Len(items))
RuleA(areas) ==
    IF areas = <<>> THEN RZero
    ELSE Rat(SeqSum([i \in DOMAIN areas |-> Get(areas[i], "risk_score", 0)]), Len(areas))
RuleOverall(items, areas) ==
    LET P == RuleP(items)
        A == RuleA(areas)
    IN  IF P[1] > 0 /\ A[1] > 0 THEN RHalf(RAdd(P, A))
        ELSE IF P[1] > 0 THEN P
        ELSE IF A[1] > 0 THEN A
        ELSE RZero

\* C3: calculate_overall_risk follows the synthesis rule: with P the mean over
\* the predictions of mean(probability, risk_score) and A the mean risk_score
\* of the risk areas, the result is (P+A)/2 when both are positive, the
\* positive one when only one is, and 0 when neither is.
C3_OverallRiskRule ==
    resp.op = "calculate_overall_risk" =>
        resp.overall_risk = RuleOverall(resp.predictions, resp.risk_areas)

C3_Witness ==
    /\ resp.op = "calculate_overall_risk"
    /\ resp.predictions = <<[probability |-> 50000, risk_score |-> 50000]>>
    /\ resp.risk_areas = <<[risk_score |-> 30000]>>
    /\ resp.overall_risk = <<40000, 1>>

InUnitInterval(x) == 0 <= x /\ x <= 100000

\* C4: every risk_score of a prediction item, of a risk area and of a heatmap
\* cell, and the overall risk score, lie in [0, 1].
C4_RiskScoresInUnitInterval ==
    /\ IsPredict =>
        \A i \in DOMAIN resp.predictions : InUnitInterval(resp.predictions[i].risk_score)
    /\ resp.op = "identify_risk_areas" =>
        \A i \in DOMAIN resp.risk_areas : InUnitInterval(resp.risk_areas[i].risk_score)
    /\ (resp.op = "generate_risk_heatmap" /\ resp.result # EmptyDict) =>
        \A i \in DOMAIN resp.result.heatmap_data :
            InUnitInterval(resp.result.heatmap_data[i].risk_score)
    /\ resp.op = "calculate_overall_risk" =>
        /\ 0 <= resp.overall_risk[1]
        /\ resp.overall_risk[1] <= 100000 * resp.overall_risk[2]

\* the regressor returned 1.5 and its item carries 1.0
C4_Witness ==
    /\ IsPredict
    /\ resp.raw = 150000
    /\ \E i \in DOMAIN resp.predictions :
        /\ resp.predictions[i].category = "Overall Risk"
        /\ resp.predictions[i].risk_score = 100000

ClaimedLevel(s) ==
    IF s < 40000 THEN "low"
    ELSE IF s < 60000 THEN "medium"
    ELSE IF s < 80000 THEN "high"
    ELSE "critical"

\* C5: the risk-level mapping of the scanner and of the heatmap service is
\* the same and exact: low below 0.4, medium in [0.4, 0.6), high in
\* [0.6, 0.8), critical from 0.8.
C5_RiskLevelThresholds ==
    resp.op = "_get_risk_level" =>
        /\ resp.risk_level = ClaimedLevel(resp.risk_score)
        /\ resp.viz_risk_level = resp.risk_level

C5_Witness ==
    /\ resp.op = "_get_risk_level"
    /\ resp.risk_score = 79999
    /\ resp.risk_level = "high"
    /\ resp.viz_risk_level = "high"

RunOver == pc = 0 /\ runs >= 1 /\ ~loaded

\* C6: in a training run every variant is attempted whichever of the others
\* failed, and each variant whose training succeeded is stored in the
\* registry.
C6_EveryVariantAttempted ==
    /\ (pc # 0) => DOMAIN models_trained = {Variants[i] : i \in 1..(pc - 1)}
    /\ RunOver =>
        \A i \in 1..4 :
            /\ Variants[i] \in DOMAIN models_trained
            /\ models_trained[Variants[i]] =>
                /\ Variants[i] \in DOMAIN models
                /\ models[Variants[i]].run = runs
                /\ trained_models[Variants[i]] = Some(models[Variants[i]])

\* the forecaster found no group of 8 rows; the regressor and the detector
\* were trained after the classifier failed
C6_Witness ==
    /\ RunOver
    /\ ~models_trained["issue_classifier"]
    /\ ~models_trained["time_series"]
    /\ models_trained["risk_regressor"]
    /\ models_trained["anomaly_detector"]
    /\ "anomaly_detector" \in DOMAIN models

\* C7: after a training run a variant whose training failed has no entry in
\* the registry: model_status does not report it trained, it has no
\* last-trained time from that run, and it is not among models_used.
C7_FailedVariantOmitted ==
    RunOver =>
        \A name \in DOMAIN models_trained :
            ~models_trained[name] =>
                /\ get_model_status[name].status # "trained"
                /\ get_model_status[name].last_updated # Some(runs)
                /\ name \notin DOMAIN trained_models

\* C8: the feature vector of the inference adapter has the keys, in the
\* order, of the columns the classifier and the regressor were trained on.
C8_SchemaConformance ==
    (IsPredict /\ ~loaded /\ ~resp.raises) =>
        \A name \in {"issue_classifier", "risk_regressor"} \cap DOMAIN models :
            Keys(resp.features) = models[name].cols

\* C9: a request whose feature vector does not match the schema a trained
\* model was fitted on is rejected with a schema-mismatch error.
C9_SchemaMismatchSurfaced ==
    (IsPredict /\ ~resp.raises
        /\ \E name \in {"issue_classifier", "risk_regressor"} \cap DOMAIN models :
                Keys(resp.features) # models[name].cols) =>
        resp.outcome = "schema_mismatch"

ValueOf(fs, key, dflt) ==
    IF \E i \in DOMAIN fs : fs[i].k = key
    THEN fs[CHOOSE i \in DOMAIN fs : fs[i].k = key].v
    ELSE dflt

\* C10: the adapter emits the same feature keys with and without the optional
\* contexts: a missing weather context gives temperature 25, humidity 50 and
\* precipitation 0, a missing history gives resolution time 3.
C10_DefaultsFilled ==
    (IsPredict /\ ~resp.raises) =>
        /\ Range(Keys(resp.features)) =
              { "latitude", "longitude", "distance_from_center", "is_weekend", "month",
                "hour", "season", "precipitation", "temperature", "humidity",
                "heavy_rain", "extreme_temp", "total_issues", "avg_resolution_time",
                "trend_increasing" }
        /\ ~Truthy(resp.weather_data) =>
              /\ ValueOf(resp.features, "temperature", -1) = 25
              /\ ValueOf(resp.features, "humidity", -1) = 50
              /\ ValueOf(resp.features, "precipitation", -1) = 0
        /\ ~Truthy(resp.historical_context) =>
              ValueOf(resp.features, "avg_resolution_time", -1) = 3

\* the items of the result that name an issue category, in result order
RECURSIVE CategoryItemsOf(_)
CategoryItemsOf(ps) ==
    IF ps = <<>> THEN <<>>
    ELSE IF Head(ps).category \in Range(Categories)
         THEN <<Head(ps)>> \o CategoryItemsOf(Tail(ps))
         ELSE CategoryItemsOf(Tail(ps))
ClassifierRan == IsPredict /\ resp.probabilities # <<>>
AboveFloor(probabilities) == {i \in DOMAIN probabilities : probabilities[i] > 10000}
ClassOf(category) == CHOOSE i \in DOMAIN Categories : Categories[i] = category

\* C11: when the classifier runs, the category items of the result are the
\* categories of probability strictly above 0.10, each once with its
\* probability and risk_score = probability x 0.8 (to the resolution 1e-5),
\* in order of non-increasing probability, cut to the 5 most probable.
C11_CategoryItems ==
    ClassifierRan =>
        LET items == CategoryItemsOf(resp.predictions)
            eligible == AboveFloor(resp.probabilities)
            kept == {ClassOf(items[k].category) : k \in DOMAIN items}
        IN  /\ Len(items) = IF Cardinality(eligible) < 5 THEN Cardinality(eligible) ELSE 5
            /\ Cardinality(kept) = Len(items)
            /\ kept \subseteq eligible
            /\ \A k \in DOMAIN items :
                /\ items[k].probability = resp.probabilities[ClassOf(items[k].category)]
                /\ 5 * items[k].risk_score <= 4 * items[k].probability
                /\ 4 * items[k].probability < 5 * items[k].risk_score + 5
                /\ k > 1 => items[k - 1].probability >= items[k].probability
            /\ \A i \in eligible \ kept, k \in DOMAIN items :
                resp.probabilities[i] <= items[k].probability

\* six categories above the floor, one exactly on it: five are returned
C11_Witness ==
    /\ ClassifierRan
    /\ Cardinality(AboveFloor(resp.probabilities)) = 6
    /\ \E i \in DOMAIN resp.probabilities : resp.probabilities[i] = 10000
    /\ Len(CategoryItemsOf(resp.predictions)) = 5

TimeItems(ps) == {i \in DOMAIN ps : ps[i].category = "Time Series Prediction"}
Forecast(item) == <<item.probability, item.confidence, item.risk_score>>

\* C12: predict_issues returns exactly one time-horizon item if and only if
\* the forecaster is in the registry and a historical context was supplied;
\* the item carries the requested timeframe and its forecast values depend on
\* the timeframe: another timeframe on the same request gives other values.
C12_TimeHorizonScales ==
    (IsPredict /\ ~resp.raises) =>
        LET items == TimeItems(resp.predictions)
        IN  /\ Cardinality(items) <= 1
            /\ Cardinality(items) = 1 <=>
                    ("time_series" \in resp.registry /\ Truthy(resp.historical_context))
            /\ \A i \in items :
                /\ resp.predictions[i].timeframe = resp.timeframe
                /\ \A other \in Timeframes \ {resp.timeframe} :
                    Forecast(_predict_time_series(resp.location, other)[1])
                        # Forecast(resp.predictions[i])

IsScan == resp.op = "identify_risk_areas" /\ resp.center_location # EmptyDict

\* C13: the grid of the risk-area scan has exactly 25 points, every one
\* inside the box center +/- radius/111 of latitude and center +/-
\* radius/(111 cos lat) of longitude, and the center is one of them.
C13_GridInBounds ==
    IsScan =>
        LET c == resp.center_location
            dlat == LatOffset(resp.radius_km)
            dlng == LngOffset(resp.radius_km, c["lat"])
        IN  /\ Len(resp.grid) = 25
            /\ \A k \in DOMAIN resp.grid :
                /\ c["lat"] - dlat <= resp.grid[k]["lat"]
                /\ resp.grid[k]["lat"] <= c["lat"] + dlat
                /\ c["lng"] - dlng <= resp.grid[k]["lng"]
                /\ resp.grid[k]["lng"] <= c["lng"] + dlng
            /\ \E k \in DOMAIN resp.grid : resp.grid[k] = c

\* radius 10: the last point of the grid is the north-east corner of the box
C13_Witness ==
    /\ IsScan
    /\ resp.radius_km = 10
    /\ Len(resp.grid) = 25
    /\ resp.grid[25]["lat"] = resp.center_location["lat"] + LatOffset(10)
    /\ resp.grid[25]["lng"]
         = resp.center_location["lng"] + LngOffset(10, resp.center_location["lat"])

IsHeatmap == resp.op = "generate_risk_heatmap"
CellsAbove(cells, t) == Cardinality({k \in DOMAIN cells : cells[k].risk_score > t})

\* C14: for every requested resolution N the heatmap holds exactly N x N
\* cells, with the grid bounds and a summary whose total_points is N x N and
\* whose counts above 0.6 and above 0.8 are those of the returned cells.
C14_HeatmapComplete ==
    IsHeatmap =>
        LET n == resp.resolution
            r == resp.result
        IN  /\ {"heatmap_data", "bounds", "summary"} \subseteq DOMAIN r
            /\ Len(r.heatmap_data) = n * n
            /\ DOMAIN r.bounds = {"north", "south", "east", "west"}
            /\ r.summary.total_points = n * n
            /\ r.summary.high_risk_points = CellsAbove(r.heatmap_data, 60000)
            /\ r.summary.critical_risk_points = CellsAbove(r.heatmap_data, 80000)

\* C15: the scan returns a grid point if and only if its score is strictly
\* above 0.6, so every returned point is 'high' or 'critical', and its
\* risk_level is the threshold mapping of the risk_score it carries.
C15_RiskAreasAboveThreshold ==
    IsScan =>
        LET hot == {k \in DOMAIN resp.grid : resp.scores[k] > 60000}
        IN  /\ Len(resp.risk_areas) = Cardinality(hot)
            /\ \A k \in hot : \E a \in DOMAIN resp.risk_areas :
                /\ resp.risk_areas[a].location = resp.grid[k]
                /\ resp.risk_areas[a].risk_score = resp.scores[k]
            /\ \A a \in DOMAIN resp.risk_areas :
                /\ resp.risk_areas[a].risk_score > 60000
                /\ resp.risk_areas[a].risk_level \in {"high", "critical"}
                /\ resp.risk_areas[a].risk_level
                     = ClaimedLevel(resp.risk_areas[a].risk_score)

\* a scan that returns some points and leaves out others, one of them
\* between 0.4 and 0.6, with both levels among the returned
C15_Witness ==
    /\ IsScan
    /\ \E k \in DOMAIN resp.grid : resp.scores[k] > 40000 /\ resp.scores[k] <= 60000
    /\ \E a \in DOMAIN resp.risk_areas : resp.risk_areas[a].risk_level = "high"
    /\ \E a \in DOMAIN resp.risk_areas : resp.risk_areas[a].risk_level = "critical"

\* distance of a point from the center of the request
FromCenter(p, c) == Hypot(p["lat"] - c["lat"], p["lng"] - c["lng"])

ScanDecays ==
    IsScan =>
        \A k1, k2 \in DOMAIN resp.grid :
            (/\ resp.noise[k1] = resp.noise[k2]
             /\ FromCenter(resp.grid[k1], resp.center_location)
                  <= FromCenter(resp.grid[k2], resp.center_location))
            => resp.scores[k1] >= resp.scores[k2]

HeatmapDecays ==
    (IsHeatmap /\ resp.result # EmptyDict) =>
        LET cells == resp.result.heatmap_data
            infra(k) == _get_infrastructure_risk(cells[k].lat, cells[k].lng, resp.age[k])
        IN  \A k1, k2 \in DOMAIN cells :
                (/\ resp.random[k1] = resp.random[k2]
                 /\ infra(k1) = infra(k2)
                 /\ FromCenter(cells[k1], resp.center) <= FromCenter(cells[k2], resp.center))
                => cells[k1].risk_score >= cells[k2].risk_score

\* C16: in the risk-area scan and in the heatmap, with the noise term and the
\* infrastructure term equal, of two grid points the one closer to the center
\* of the request never scores lower than the farther one.
C16_ScoreDecaysWithDistance == ScanDecays /\ HeatmapDecays

\* C17: training never runs concurrently with itself: while a run is in
\* flight no other run starts and no train request is taken (one sent
\* meanwhile waits), the loop goes through the variants in order, and the
\* variants already stamped in the current run are exactly the ones before pc.
C17_TrainingNotInterleaved ==
    /\ [][(pc # 0) =>
            /\ runs' = runs
            /\ pending' = pending
            /\ resp' = resp
            /\ Len(inbox') >= Len(inbox)
            /\ pc' \in {pc, pc + 1} \/ (pc = 4 /\ pc' = 0)]_vars
    /\ [](pc # 0 =>
            /\ \A i \in 1..(pc - 1) : model_last_updated[Variants[i]] = runs
            /\ \A i \in pc..4 : Variants[i] \in DOMAIN model_last_updated
                                  => model_last_updated[Variants[i]] < runs)

\* a request sent while the second run was in flight is taken once that run
\* is over, with all four variants stamped by it, and its task waits
C17_Witness ==
    /\ resp.op = "train_models" /\ resp.in_flight
    /\ runs = 2 /\ pc = 0 /\ pending = 1
    /\ \A i \in 1..4 : model_last_updated[Variants[i]] = 2

Effective(k) ==
    /\ runs = k /\ pc = 0
    /\ \A i \in 1..4 :
        models_trained[Variants[i]] =>
            /\ Variants[i] \in DOMAIN trained_models
            /\ trained_models[Variants[i]].some
            /\ model_last_updated[Variants[i]] = k

\* C19: the train request is answered 'training' before its run has started,
\* and the run of every accepted request eventually finishes, each variant
\* it trained being in the registry with a time later than the request.
C19_TrainEventuallyEffective ==
    /\ [](resp.op = "train_models" =>
            /\ resp.status = "training"
            /\ resp.at = runs /\ pc = 0
            /\ pending >= 1)
    /\ \A k \in 2..MaxRuns :
        (runs < k /\ k <= runs + pending) ~> Effective(k)

\* the run of a train request is over and the detector it trained is in the
\* registry with the time of that run
C19_Witness ==
    /\ Effective(2)
    /\ pending = 0
    /\ models_trained["anomaly_detector"]
    /\ model_last_updated["anomaly_detector"] = 2

\* C20: the status report gives, for each of the four variants, trained or
\* not as the registry has it, the time the registry recorded, and as accuracy
\* the metric its training step recorded: for a variant that trained
\* successfully and recorded a metric the accuracy is that metric, not absent.
C20_StatusReportsMetric ==
    resp.op = "get_model_status" =>
        /\ DOMAIN resp.models = Range(Variants)
        /\ \A name \in Range(Variants) :
            LET entry == resp.models[name]
                trained == name \in DOMAIN trained_models
            IN  /\ entry.status = IF trained THEN "trained" ELSE "not_trained"
                /\ entry.last_updated = IF trained THEN Some(model_last_updated[name]) ELSE None
                /\ (trained /\ trained_models[name].some /\ name \in DOMAIN model_metrics)
                        => entry.accuracy = Some(model_metrics[name])

\* the run has loaded its table and no train function has touched it yet
TableLoaded == pc = 1

\* C21: the table load_training_data hands to the training loop has both
\* label columns, 'category' and 'risk_score', beside its feature columns.
C21_LabelColumnsKept ==
    TableLoaded =>
        /\ HasCol(data, "category")
        /\ HasCol(data, "risk_score")
        /\ Without(data.cols, {"category", "risk_score"}) # <<>>

IsLoad == resp.op = "load_training_data"
\* the columns of the table when both joins are available
JoinedSchema == Range(load_training_data(<<1, 1>>, TRUE, TRUE).cols)

\* C22: the pipeline's table has the same set of columns on every call,
\* whether the weather and demographic sources are available or not: a column
\* a join would have brought is present (zero-filled), none is dropped or
\* renamed.
C22_SchemaStable ==
    IsLoad => Range(resp.table.cols) = JoinedSchema

\* C23: for every month the season number the models are trained on (the
\* pipeline's label after label encoding) is the season number the inference
\* adapter produces.
C23_SeasonSameFormula ==
    resp.op = "_get_season" => resp.trained = resp.served

IsRequest == resp.op = "predict"

\* C24: a request whose timeframe is none of '1_day', '7_days', '30_days' is
\* answered with an error; it is not served as if it were one of the three.
C24_TimeframeClosed ==
    (IsRequest /\ resp.request.timeframe \notin Timeframes) => resp.status_code # 200

ItemFields == {"category", "probability", "confidence", "risk_score", "timeframe"}
ItemCategories == Range(Categories) \cup {"Overall Risk", "Time Series Prediction"}
AreaFields == {"location", "risk_level", "risk_score"}
\* an input the call cannot work on: a location without its coordinates
BadLocation(l) == ~({"lat", "lng"} \subseteq DOMAIN l)

\* C25: whatever the registry holds and whatever the input, predict_issues
\* returns a list of prediction items (the fallback list when the feature
\* extraction fails), identify_risk_areas returns a list of risk areas (empty
\* when the centre cannot be read) and calculate_overall_risk returns a
\* number; none of them hands an error to its caller.
C25_CoreNeverRaises ==
    /\ IsPredict =>
        /\ resp.predictions # <<>>
        /\ \A i \in DOMAIN resp.predictions :
            /\ DOMAIN resp.predictions[i] = ItemFields
            /\ resp.predictions[i].category \in ItemCategories
        /\ BadLocation(resp.location) =>
            resp.predictions = _generate_fallback_predictions(resp.location, resp.weather_data)
    /\ resp.op = "identify_risk_areas" =>
        /\ \A i \in DOMAIN resp.risk_areas : DOMAIN resp.risk_areas[i] = AreaFields
        /\ BadLocation(resp.center_location) => resp.risk_areas = <<>>
    /\ resp.op = "calculate_overall_risk" =>
        /\ resp.overall_risk[2] > 0
        /\ 0 <= resp.overall_risk[1]
        /\ resp.overall_risk[1] <= One * resp.overall_risk[2]

\* predict_issues was called with trained models in the registry on a
\* location without coordinates, and returned the fallback list
C25_Witness ==
    /\ IsPredict /\ BadLocation(resp.location)
    /\ "risk_regressor" \in resp.registry
    /\ resp.predictions = _generate_fallback_predictions(resp.location, resp.weather_data)

\* the classifier's preparation, where the encoding is done, is over and the
\* regressor, the forecaster or the detector is about to be fitted
Encoded == pc \in 2..4

\* C26: on every run, the first and every retrain, the string-valued feature
\* columns of the table have been converted to numbers before a model is
\* fitted on them: no feature column handed to the estimators is a string
\* column.
C26_StringsEncodedEveryRun ==
    Encoded => ~HasStrings(data, _prepare_regression_data(data).feature_cols)

IsPrepare == resp.op = "_prepare_time_series_data"
\* no location group of the run's table has 8 rows
NoLongGroup == \A g \in DOMAIN data.groups : data.groups[g] < 8

\* C27: a location group of L date-sorted rows gives exactly max(0, L - 7)
\* windows of 7 consecutive rows, window i with the risk_score of row i + 7
\* as target, so a group of fewer than 8 rows gives none; and when no group
\* has 8 rows, or the location key or the date column is missing,
\* train_time_series_model returns no model and stores no 'time_series' entry.
C27_SlidingWindows ==
    /\ [](IsPrepare =>
            /\ resp.keyed =>
                \A g \in DOMAIN resp.groups :
                    LET L == resp.groups[g]
                        w == resp.sequences[g]
                    IN  /\ Len(w) = Max(0, L - 7)
                        /\ L < 8 => w = <<>>
                        /\ \A i \in 0..(Len(w) - 1) :
                            /\ w[i + 1].first = i
                            /\ w[i + 1].last - w[i + 1].first + 1 = 7
                            /\ w[i + 1].target = i + 7
                            /\ w[i + 1].target <= L - 1
            /\ ~resp.keyed => resp.count = 0
            /\ resp.keyed => resp.count = SeqSum([g \in DOMAIN resp.groups |->
                                                    Max(0, resp.groups[g] - 7)]))
    /\ [][(pc = 3 /\ pc' = 4 /\ NoLongGroup) =>
            /\ trained_models'["time_series"] = None
            /\ models' = models
            /\ model_metrics' = model_metrics]_vars

\* the forecaster's step of the first run is over on a table with a group of
\* 7 rows and none of 8: it returned no model and nothing is stored
C27_Witness ==
    /\ pc = 4 /\ runs = 1
    /\ \E g \in DOMAIN data.groups : data.groups[g] = 7
    /\ NoLongGroup
    /\ trained_models["time_series"] = None
    /\ "time_series" \notin DOMAIN models

\* the request was answered and none of its items comes from a model: no
\* classifier is in the registry and no item is the regressor's or the
\* forecaster's
NoModelOutput ==
    /\ IsRequest /\ resp.status_code = 200
    /\ "issue_classifier" \notin DOMAIN models
    /\ \A i \in DOMAIN resp.predictions :
        resp.predictions[i].category \notin {"Overall Risk", "Time Series Prediction"}

\* C28: through POST /predict with include_weather, when no model produces
\* output and the weather provider's record reports a precipitation above 20,
\* the predictions contain the 'Water Supply' fallback item.
C28_ProviderRainReachesFallback ==
    (/\ NoModelOutput
     /\ resp.request.include_weather
     /\ resp.weather_context.val.current.precipitation > 20)
        => WaterItems(resp.predictions) # {}

\* the two deterministic fallback items
FallbackWater ==
    [ category |-> "Water Supply", probability |-> 70000, confidence |-> 80000,
      risk_score |-> 70000, timeframe |-> "7_days" ]
FallbackRoad ==
    [ category |-> "Road & Pothole Issues", probability |-> 40000, confidence |-> 60000,
      risk_score |-> 40000, timeframe |-> "7_days" ]
\* 1: a classifier item, 2: the regressor's item, 3: the forecaster's item
KindOf(item) ==
    IF item.category = "Overall Risk" THEN 2
    ELSE IF item.category = "Time Series Prediction" THEN 3
    ELSE 1
OnlyFallback(ps) == ps \in {<<FallbackRoad>>, <<FallbackWater, FallbackRoad>>}
OnlyModels(ps) ==
    /\ Len(ps) <= 7
    /\ \A i \in DOMAIN ps : ps[i] \notin {FallbackWater, FallbackRoad}
    /\ \A i, j \in DOMAIN ps :
        i < j => /\ KindOf(ps[i]) <= KindOf(ps[j])
                 /\ KindOf(ps[j]) = 1 => ps[i].probability >= ps[j].probability
                 /\ KindOf(ps[i]) = KindOf(ps[j]) => KindOf(ps[i]) = 1
    /\ Cardinality({i \in DOMAIN ps : KindOf(ps[i]) = 1}) <= 5

\* C29: predict_issues returns a non-empty list that is either only items of
\* trained models (classifier items first, in non-increasing probability,
\* then the 'Overall Risk' item, then the time-horizon item, at most 7 in
\* all) or only the deterministic fallback items, never a mixture.
C29_FallbackNeverMixed ==
    IsPredict =>
        /\ resp.predictions # <<>>
        /\ OnlyFallback(resp.predictions) \/ OnlyModels(resp.predictions)

\* five classifier items followed by the regressor's item
C29_Witness ==
    /\ IsPredict
    /\ Len(resp.predictions) = 6
    /\ KindOf(resp.predictions[5]) = 1
    /\ resp.predictions[6].category = "Overall Risk"
    /\ OnlyModels(resp.predictions)

\* the step of variant number pc has just been taken and returned no model
StepFailed == pc # 0 /\ pc' # pc /\ trained_models'[Variants[pc]] = None

\* C30: a training step that fails leaves models, scalers and model_metrics
\* as they were: the failed variant keeps the entries it had (none, or those
\* of the earlier run) and the other variants' entries are untouched.
C30_FailedStepChangesNothing ==
    [][StepFailed => /\ models' = models
                     /\ scalers' = scalers
                     /\ model_metrics' = model_metrics]_vars

\* the regressor's step of a retrain has failed and the registry still holds
\* the instance and the metric of the first run
C30_Witness ==
    /\ pc = 3 /\ runs = 2
    /\ trained_models["risk_regressor"] = None
    /\ "risk_regressor" \in DOMAIN models
    /\ models["risk_regressor"].run = 1
    /\ model_metrics["risk_regressor"] = 1
====
